---- MODULE Spec2Model ----
(***************************************************************************)
(* biicodemaps: a Map of Cities joined by Roads (model.py), a decrease-key *)
(* PriorityQueue on top of heapq and three shortest-path searches over the *)
(* Map (routing.py).                                                       *)
(*                                                                         *)
(* A City object is identified by its name (the Map's dict holds one City  *)
(* per name), a Road object by the pair of names it joins.  Coordinates    *)
(* are whole numbers placed so that every distance the searches compute    *)
(* is a whole number too: sqrt and float addition are then exact, and      *)
(* Sqrt has no value (TLC stops) on anything else.                         *)
(***************************************************************************)
EXTENDS Integers, Sequences, FiniteSets, TLC

VARIABLES
    map_,                  \* the Map: [cities: name -> City, roads: Seq(Road)]
    pc,                    \* position of the routing call
    call,                  \* [alg, origin, destination] of the routing call
    error,                 \* message of the BiiCodeMapsError raised, or None
    cost,                  \* Dijkstra: cost[city]
    previous_city,         \* previous_city[city]
    unvisited_cities,      \* Dijkstra original: list of unvisited cities
    closed_set,            \* A*: closed set
    cost_from_origin,      \* A*: g-score
    estimated_total_cost,  \* A*: f-score
    queue,                 \* PriorityQueue.queue: heap of [priority, count, value]
    entries,               \* PriorityQueue.entries: value -> entry
    counter,               \* PriorityQueue.counter: next sequence count
    result,                \* (path, total_cost) returned, or None
    popped,                \* PriorityQueue driver: outcome of the last call when it was a pop
    live,                  \* PriorityQueue driver: value -> priority and ordinal of its last push
    pushes,                \* PriorityQueue driver: number of push calls made
    stream,                \* RETStreamMapBuilder.stream: the lines, each a list of characters
    diagonal               \* RETStreamMapBuilder.diagonal

vars == <<map_, pc, call, error, cost, previous_city, unvisited_cities,
          closed_set, cost_from_origin, estimated_total_cost,
          queue, entries, counter, result, popped, live, pushes,
          stream, diagonal>>

mapVars == <<map_>>
callVars == <<pc, call, error, result>>
searchVars == <<cost, previous_city, unvisited_cities, closed_set,
                cost_from_origin, estimated_total_cost>>
pqVars == <<queue, entries, counter>>
driverVars == <<popped, live, pushes>>
builderVars == <<stream, diagonal>>

----------------------------------------------------------------------------
(* Values *)

None == "<none>"

REMOVED == "<removed>"

\* a coordinate argument that is None
NoCoord == -1

\* float('infinity'): above every finite cost, absorbing under addition
Inf == 1000000

Add(a, b) == IF a = Inf \/ b = Inf THEN Inf ELSE a + b

\* math.sqrt, exact on the perfect squares the model's coordinates produce
Sqrt(n) == CHOOSE r \in 0..n : r * r = n

Get(dict, key) == IF key \in DOMAIN dict THEN dict[key] ELSE None

Put(dict, key, value) ==
    [k \in DOMAIN dict \cup {key} |-> IF k = key THEN value ELSE dict[k]]

Del(dict, key) == [k \in DOMAIN dict \ {key} |-> dict[k]]

EmptyDict == <<>>

----------------------------------------------------------------------------
(* model.py: City, Road, Map *)

EmptyMap == [cities |-> EmptyDict, roads |-> <<>>]

\* Map.city: the City of that name, or None
city(m, name) == Get(m.cities, name)

\* "not map_.city(name)": Map.city caught the KeyError and returned None
no_city(m, name) == name \notin DOMAIN m.cities

\* City.__init__ testing the coordinates with "not x" / "not y"
CityErrorOnFalsy(name, x, y) ==
    IF name = None \/ name = "" THEN "Empty name"
    ELSE IF x = NoCoord \/ x = 0 THEN "Empty x"
    ELSE IF y = NoCoord \/ y = 0 THEN "Empty y"
    ELSE None

\* City.__init__ checks
CityError(name, x, y) ==
    IF name = None \/ name = "" THEN "Empty name"
    ELSE IF x = NoCoord THEN "Empty x"
    ELSE IF y = NoCoord THEN "Empty y"
    ELSE None

\* Map.create_city without the test on names already present
create_city_overwriting(m, name, x, y) ==
    IF CityError(name, x, y) # None
    THEN [map |-> m, error |-> CityError(name, x, y)]
    ELSE [map |-> [m EXCEPT !.cities =
                      Put(@, name, [name |-> name, x |-> x, y |-> y, roads |-> <<>>])],
          error |-> None]

\* Map.create_city: [map, error]
create_city(m, name, x, y) ==
    IF name \in DOMAIN m.cities THEN [map |-> m, error |-> "Name already exists"]
    ELSE IF CityError(name, x, y) # None
         THEN [map |-> m, error |-> CityError(name, x, y)]
    ELSE [map |-> [m EXCEPT !.cities =
                      Put(@, name, [name |-> name, x |-> x, y |-> y, roads |-> <<>>])],
          error |-> None]

\* City.has_road_to looking at city_2 of each road only
has_road_to_city_2_only(m, c, other) ==
    \E i \in 1..Len(m.cities[c].roads) : m.cities[c].roads[i].city_2 = other

\* City.has_road_to
has_road_to(m, c, other) ==
    \E i \in 1..Len(m.cities[c].roads) :
        \/ m.cities[c].roads[i].city_1 = other
        \/ m.cities[c].roads[i].city_2 = other

\* Road.__init__ checks
RoadError(m, c1, c2) ==
    IF c1 = c2 THEN "Cities cannot be the same"
    ELSE IF has_road_to(m, c1, c2) THEN "Road already exists"
    ELSE None

\* City._add_road
add_road(cities, c, road) ==
    [cities EXCEPT ![c].roads = Append(@, road)]

\* Map.create_road looking up the first name only; the second city gets the
\* road when the Map holds it
create_road_first_name_only(m, city_1_name, city_2_name) ==
    IF no_city(m, city_1_name)
    THEN [map |-> m, error |-> "Unknown city"]
    ELSE IF city_1_name = city_2_name
    THEN [map |-> m, error |-> "Cities cannot be the same"]
    ELSE LET road == [city_1 |-> city_1_name, city_2 |-> city_2_name]
             one == add_road(m.cities, city_1_name, road)
         IN [map |-> [cities |-> IF no_city(m, city_2_name) THEN one
                                 ELSE add_road(one, city_2_name, road),
                      roads |-> Append(m.roads, road)],
             error |-> None]

\* Map.create_road with a Road that registers itself in city_1 only
create_road_one_sided(m, city_1_name, city_2_name) ==
    IF no_city(m, city_1_name)
    THEN [map |-> m, error |-> "Unknown city"]
    ELSE IF no_city(m, city_2_name)
    THEN [map |-> m, error |-> "Unknown city"]
    ELSE IF RoadError(m, city_1_name, city_2_name) # None
    THEN [map |-> m, error |-> RoadError(m, city_1_name, city_2_name)]
    ELSE LET road == [city_1 |-> city_1_name, city_2 |-> city_2_name]
         IN [map |-> [cities |-> add_road(m.cities, city_1_name, road),
                      roads |-> Append(m.roads, road)],
             error |-> None]

\* Map.create_road with a Road that registers itself in city_1 before its checks
create_road_registering_before_checks(m, city_1_name, city_2_name) ==
    IF no_city(m, city_1_name)
    THEN [map |-> m, error |-> "Unknown city"]
    ELSE IF no_city(m, city_2_name)
    THEN [map |-> m, error |-> "Unknown city"]
    ELSE LET road == [city_1 |-> city_1_name, city_2 |-> city_2_name]
         IN IF RoadError(m, city_1_name, city_2_name) # None
            THEN [map |-> [m EXCEPT !.cities = add_road(@, city_1_name, road)],
                  error |-> RoadError(m, city_1_name, city_2_name)]
            ELSE [map |-> [cities |-> add_road(add_road(m.cities, city_1_name, road),
                                               city_2_name, road),
                           roads |-> Append(m.roads, road)],
                  error |-> None]

\* Map.create_road: [map, error]
create_road(m, city_1_name, city_2_name) ==
    IF no_city(m, city_1_name)
    THEN [map |-> m, error |-> "Unknown city"]
    ELSE IF no_city(m, city_2_name)
    THEN [map |-> m, error |-> "Unknown city"]
    ELSE IF RoadError(m, city_1_name, city_2_name) # None
    THEN [map |-> m, error |-> RoadError(m, city_1_name, city_2_name)]
    ELSE LET road == [city_1 |-> city_1_name, city_2 |-> city_2_name]
         IN [map |-> [cities |-> add_road(add_road(m.cities, city_1_name, road),
                                          city_2_name, road),
                      roads |-> Append(m.roads, road)],
             error |-> None]

\* Road.length
length(m, road) ==
    Sqrt((m.cities[road.city_1].x - m.cities[road.city_2].x)
           * (m.cities[road.city_1].x - m.cities[road.city_2].x)
         + (m.cities[road.city_1].y - m.cities[road.city_2].y)
           * (m.cities[road.city_1].y - m.cities[road.city_2].y))

\* Road.other_end answering city_2 whatever the city
other_end_city_2(road, c) == road.city_2

\* Road.other_end (None stands for the error raised on a city of another road)
other_end(road, c) ==
    IF c = road.city_1 THEN road.city_2
    ELSE IF c = road.city_2 THEN road.city_1
    ELSE None

----------------------------------------------------------------------------
(* routing.py: PriorityQueue on heapq.  The heap is the list heapq keeps,  *)
(* position i of the list being index i + 1 here.                          *)

\* entries ordered by priority, the newest first among equals
EntryLessNewestFirst(a, b) ==
    \/ a.priority < b.priority
    \/ a.priority = b.priority /\ a.count > b.count

\* order of two entries [priority, count, value] (list comparison)
EntryLess(a, b) ==
    \/ a.priority < b.priority
    \/ a.priority = b.priority /\ a.count < b.count

RECURSIVE siftdown(_, _, _, _)
\* heapq._siftdown: move newitem from pos towards startpos
siftdown(heap, startpos, pos, newitem) ==
    IF pos > startpos /\ EntryLess(newitem, heap[pos \div 2])
    THEN siftdown([heap EXCEPT ![pos] = heap[pos \div 2]], startpos, pos \div 2, newitem)
    ELSE [heap EXCEPT ![pos] = newitem]

RECURSIVE siftup(_, _, _, _)
\* heapq._siftup: bubble the smaller child up to a leaf, then sift newitem down
siftup(heap, startpos, pos, newitem) ==
    IF 2 * pos <= Len(heap)
    THEN LET childpos ==
                 IF 2 * pos + 1 <= Len(heap)
                    /\ ~EntryLess(heap[2 * pos], heap[2 * pos + 1])
                 THEN 2 * pos + 1 ELSE 2 * pos
         IN siftup([heap EXCEPT ![pos] = heap[childpos]], startpos, childpos, newitem)
    ELSE siftdown(heap, startpos, pos, newitem)

heappush(heap, item) == siftdown(Append(heap, item), 1, Len(heap) + 1, item)

\* heappop: [item, heap]
heappop(heap) ==
    LET lastelt == heap[Len(heap)]
        rest == SubSeq(heap, 1, Len(heap) - 1)
    IN IF rest # <<>>
       THEN [item |-> rest[1], heap |-> siftup(rest, 1, 1, lastelt)]
       ELSE [item |-> lastelt, heap |-> rest]

\* PriorityQueue.__init__
NewQueue == [queue |-> <<>>, entries |-> EmptyDict, counter |-> 0]

\* remove that forgets the value without marking its entry in the heap
remove_without_marking(pq, value) == [pq EXCEPT !.entries = Del(@, value)]

\* remove that marks the entry in the heap and keeps the value in the mapping
remove_only_marking(pq, value) ==
    [pq EXCEPT
        !.queue = [i \in DOMAIN @ |->
                     IF @[i].count = pq.entries[value].count
                     THEN [@[i] EXCEPT !.value = REMOVED] ELSE @[i]]]

\* PriorityQueue.remove: the entry leaves the mapping and is marked in the heap
remove(pq, value) ==
    [pq EXCEPT
        !.entries = Del(@, value),
        !.queue = [i \in DOMAIN @ |->
                     IF @[i].count = pq.entries[value].count
                     THEN [@[i] EXCEPT !.value = REMOVED] ELSE @[i]]]

\* push that leaves the entry of a value already queued as it is in the heap
push_keeping_old_entry(pq, value, priority) ==
    LET entry == [priority |-> priority, count |-> pq.counter, value |-> value]
    IN [queue |-> heappush(pq.queue, entry),
        entries |-> Put(pq.entries, value, entry),
        counter |-> pq.counter + 1]

\* PriorityQueue.push
push(pq, value, priority) ==
    LET q == IF value \in DOMAIN pq.entries THEN remove(pq, value) ELSE pq
        entry == [priority |-> priority, count |-> q.counter, value |-> value]
    IN [queue |-> heappush(q.queue, entry),
        entries |-> Put(q.entries, value, entry),
        counter |-> q.counter + 1]

\* pop returning the top of the heap whatever it holds
pop_top_of_heap(pq) ==
    IF pq.queue = <<>>
    THEN [pq |-> pq, value |-> None, error |-> "Pop called on empty priority queue."]
    ELSE LET h == heappop(pq.queue)
         IN [pq |-> [pq EXCEPT !.queue = h.heap, !.entries = Del(@, h.item.value)],
             value |-> h.item.value, error |-> None]

RECURSIVE pop(_)
\* PriorityQueue.pop: [pq, value, error]
pop(pq) ==
    IF pq.queue = <<>>
    THEN [pq |-> pq, value |-> None, error |-> "Pop called on empty priority queue."]
    ELSE LET h == heappop(pq.queue)
         IN IF h.item.value # REMOVED
            THEN [pq |-> [pq EXCEPT !.queue = h.heap, !.entries = Del(@, h.item.value)],
                  value |-> h.item.value, error |-> None]
            ELSE pop([pq EXCEPT !.queue = h.heap])

\* PriorityQueue.__len__
len(pq) == Cardinality(DOMAIN pq.entries)

\* PriorityQueue.__contains__
contains(pq, value) == value \in DOMAIN pq.entries

----------------------------------------------------------------------------
(* routing.py: the three searches *)

ALGORITHMS == {"dij-o", "dij-pq", "a-star"}

\* _safe_cities checking the origin name only
safe_cities_origin_only(m, origin_city_name, destination_city_name) ==
    IF no_city(m, origin_city_name) THEN "Unknown city" ELSE None

\* _safe_cities: the message of the error raised, or None
safe_cities(m, origin_city_name, destination_city_name) ==
    IF no_city(m, origin_city_name) THEN "Unknown city"
    ELSE IF no_city(m, destination_city_name) THEN "Unknown city"
    ELSE None

RECURSIVE walk_back_appending(_, _, _)
\* the backward walk with path.append in place of path.insert(0, ...)
walk_back_appending(previous, c, path) ==
    IF Get(previous, c) = None THEN path \o <<c>>
    ELSE walk_back_appending(previous, Get(previous, c), path \o <<c>>)

RECURSIVE walk_back(_, _, _)
\* _results, the backward walk: prepend names until a city has no predecessor
walk_back(previous, c, path) ==
    IF Get(previous, c) = None THEN <<c>> \o path
    ELSE walk_back(previous, Get(previous, c), <<c>> \o path)

\* _results walking back whenever origin and destination differ
results_unguarded(origin_city, destination_city, previous, cost_) ==
    IF origin_city = destination_city
    THEN [path |-> <<origin_city>>, total_cost |-> 0]
    ELSE [path |-> walk_back(previous, destination_city, <<>>),
          total_cost |-> Get(cost_, destination_city)]

\* _results without the origin == destination case
results_without_trivial_case(origin_city, destination_city, previous, cost_) ==
    IF Get(previous, destination_city) = None
    THEN [path |-> <<>>, total_cost |-> Inf]
    ELSE [path |-> walk_back(previous, destination_city, <<>>),
          total_cost |-> cost_[destination_city]]

\* _results
results(origin_city, destination_city, previous, cost_) ==
    IF Get(previous, destination_city) = None
    THEN IF origin_city = destination_city
         THEN [path |-> <<origin_city>>, total_cost |-> 0]
         ELSE [path |-> <<>>, total_cost |-> Inf]
    ELSE [path |-> walk_back(previous, destination_city, <<>>),
          total_cost |-> cost_[destination_city]]

\* A*: euclidean_distance
euclidean_distance(m, city_1, city_2) ==
    Sqrt((m.cities[city_1].x - m.cities[city_2].x)
           * (m.cities[city_1].x - m.cities[city_2].x)
         + (m.cities[city_1].y - m.cities[city_2].y)
           * (m.cities[city_1].y - m.cities[city_2].y))

\* min(unvisited_cities, key=cost): the first city of the list of least cost
\* the first unvisited city taken in place of the one that costs the least
min_city_first_unvisited(unvisited, cost_) == unvisited[1]

min_city(unvisited, cost_) ==
    unvisited[CHOOSE i \in 1..Len(unvisited) :
                 /\ \A j \in 1..Len(unvisited) : cost_[unvisited[i]] <= cost_[unvisited[j]]
                 /\ \A j \in 1..(i - 1) : cost_[unvisited[j]] # cost_[unvisited[i]]]

\* list.remove leaving the list as it is
list_remove_nothing(list, x) == list

\* list.remove: drop the first occurrence
list_remove(list, x) ==
    LET i == CHOOSE k \in 1..Len(list) :
                 list[k] = x /\ \A j \in 1..(k - 1) : list[j] # x
    IN SubSeq(list, 1, i - 1) \o SubSeq(list, i + 1, Len(list))

\* a relaxation that only fills in costs not yet set
improves_when_unset(new_cost, old_cost) == old_cost = Inf /\ new_cost < old_cost

\* a relaxation that also takes a cost equal to the one known
improves_or_equals(new_cost, old_cost) == new_cost <= old_cost

\* the relaxation test of both Dijkstra variants
improves(new_cost, old_cost) == new_cost < old_cost

RECURSIVE relax_original(_, _, _, _)
\* shortest_path_dijkstra_original: for road in city.roads, from the i-th road on
relax_original(m, c, i, st) ==
    IF i > Len(m.cities[c].roads) THEN st
    ELSE LET road == m.cities[c].roads[i]
             neighbour_city == other_end(road, c)
             neighbour_city_new_cost == Add(st.cost[c], length(m, road))
         IN IF improves(neighbour_city_new_cost, st.cost[neighbour_city])
            THEN relax_original(m, c, i + 1,
                     [cost |-> [st.cost EXCEPT ![neighbour_city] = neighbour_city_new_cost],
                      previous_city |-> [st.previous_city EXCEPT ![neighbour_city] = c]])
            ELSE relax_original(m, c, i + 1, st)

RECURSIVE relax_priority_queue(_, _, _, _)
\* shortest_path_dijkstra_priority_queue: for road in city.roads, from the i-th road on
relax_priority_queue(m, c, i, st) ==
    IF i > Len(m.cities[c].roads) THEN st
    ELSE LET road == m.cities[c].roads[i]
             neighbour_city == other_end(road, c)
             neighbour_city_new_cost == Add(st.cost[c], length(m, road))
         IN IF improves(neighbour_city_new_cost, st.cost[neighbour_city])
            THEN relax_priority_queue(m, c, i + 1,
                     [cost |-> [st.cost EXCEPT ![neighbour_city] = neighbour_city_new_cost],
                      previous_city |-> [st.previous_city EXCEPT ![neighbour_city] = c],
                      pq |-> push(st.pq, neighbour_city, neighbour_city_new_cost)])
            ELSE relax_priority_queue(m, c, i + 1, st)

RECURSIVE relax_a_star(_, _, _, _, _, _)
\* shortest_path_a_star: for road in city.roads, from the i-th road on
relax_a_star(m, c, destination_city, closed, i, st) ==
    IF i > Len(m.cities[c].roads) THEN st
    ELSE LET road == m.cities[c].roads[i]
             neighbour_city == other_end(road, c)
             neighbour_city_new_cost == Add(st.cost_from_origin[c], length(m, road))
         IN IF neighbour_city \in closed
            THEN relax_a_star(m, c, destination_city, closed, i + 1, st)
            ELSE IF \/ ~contains(st.pq, neighbour_city)
                    \/ neighbour_city_new_cost < st.cost_from_origin[neighbour_city]
            THEN relax_a_star(m, c, destination_city, closed, i + 1,
                     [cost_from_origin |->
                          Put(st.cost_from_origin, neighbour_city, neighbour_city_new_cost),
                      estimated_total_cost |->
                          Put(st.estimated_total_cost, neighbour_city,
                              Add(neighbour_city_new_cost,
                                  euclidean_distance(m, neighbour_city, destination_city))),
                      previous_city |-> Put(st.previous_city, neighbour_city, c),
                      pq |-> IF ~contains(st.pq, neighbour_city)
                             THEN push(st.pq, neighbour_city,
                                       Add(neighbour_city_new_cost,
                                           euclidean_distance(m, neighbour_city,
                                                              destination_city)))
                             ELSE st.pq])
            ELSE relax_a_star(m, c, destination_city, closed, i + 1, st)

RECURSIVE push_all(_, _, _, _)
\* shortest_path_dijkstra_priority_queue: the pushes of the initialisation loop
push_all(cities, i, cost_, pq) ==
    IF i > Len(cities) THEN pq
    ELSE push_all(cities, i + 1, cost_, push(pq, cities[i], cost_[cities[i]]))

----------------------------------------------------------------------------
(* Inputs of the routing runs.  The cities lie on the centre and the four  *)
(* corners of a rhombus with half-diagonals 3 and 4, where every distance  *)
(* is one of 0, 3, 4, 5, 6, 8; A and C share a point, and so do E and F.   *)

CityInputs ==
    << [name |-> "A", x |-> 3, y |-> 4], [name |-> "B", x |-> 3, y |-> 0],
       [name |-> "C", x |-> 3, y |-> 4], [name |-> "D", x |-> 0, y |-> 4],
       [name |-> "E", x |-> 6, y |-> 4], [name |-> "F", x |-> 6, y |-> 4] >>

RoadInputs ==
    << <<"D", "C">>, <<"D", "F">>, <<"F", "E">>, <<"A", "B">>,
       <<"E", "C">>, <<"B", "C">>, <<"A", "F">>, <<"B", "E">>, <<"A", "D">> >>

\* how many of RoadInputs a run may create
NumRoadInputs == 7

\* a name no Map holds
UnknownName == "Z"

RECURSIVE create_cities(_, _)
create_cities(m, i) ==
    IF i > Len(CityInputs) THEN m
    ELSE create_cities(create_city(m, CityInputs[i].name,
                                   CityInputs[i].x, CityInputs[i].y).map, i + 1)

RECURSIVE create_roads(_, _, _)
\* create_road for the chosen RoadInputs, in the order of RoadInputs
create_roads(m, chosen, i) ==
    IF i > Len(RoadInputs) THEN m
    ELSE IF i \in chosen
         THEN create_roads(create_road(m, RoadInputs[i][1], RoadInputs[i][2]).map,
                           chosen, i + 1)
         ELSE create_roads(m, chosen, i + 1)

\* the Maps the routing runs are made on
RouteMaps ==
    { create_roads(create_cities(EmptyMap, 1), chosen, 1) :
        chosen \in SUBSET { i \in 1..Len(RoadInputs) : i <= NumRoadInputs } }

CityNames == [i \in 1..Len(CityInputs) |-> CityInputs[i].name]

Reverse(seq) == [i \in 1..Len(seq) |-> seq[Len(seq) + 1 - i]]

InMap(name) == name \in DOMAIN map_.cities

\* map_.cities.values(): the cities in the order the dict yields them, an
\* order the language leaves to the dict; two orders are drawn
values(m) ==
    { SelectSeq(CityNames, LAMBDA n : n \in DOMAIN m.cities),
      Reverse(SelectSeq(CityNames, LAMBDA n : n \in DOMAIN m.cities)) }

NoCall == [alg |-> None, origin |-> None, destination |-> None]

IdleState ==
    /\ pc = "idle"
    /\ call = NoCall
    /\ error = None
    /\ result = None
    /\ cost = EmptyDict
    /\ previous_city = EmptyDict
    /\ unvisited_cities = <<>>
    /\ closed_set = {}
    /\ cost_from_origin = EmptyDict
    /\ estimated_total_cost = EmptyDict

EmptyQueueState ==
    /\ queue = NewQueue.queue
    /\ entries = NewQueue.entries
    /\ counter = NewQueue.counter

NoPop == [value |-> None, error |-> None, among |-> EmptyDict, heap |-> 0]

NoDriver ==
    /\ popped = NoPop
    /\ live = EmptyDict
    /\ pushes = 0

\* no builder at work
NoBuilder ==
    /\ stream = <<>>
    /\ diagonal = TRUE

Init ==
    /\ map_ \in RouteMaps
    /\ IdleState
    /\ EmptyQueueState
    /\ NoDriver
    /\ NoBuilder

EmptySearch ==
    [pc |-> "init", cost |-> EmptyDict, previous_city |-> EmptyDict,
     unvisited_cities |-> <<>>, closed_set |-> {}, cost_from_origin |-> EmptyDict,
     estimated_total_cost |-> EmptyDict, pq |-> NewQueue]

\* shortest_path_dijkstra_original: initialize data structures
init_dijkstra_original(m, cl, cities, st) ==
    [st EXCEPT
        !.pc = "loop",
        !.cost = [c \in DOMAIN m.cities |-> IF c = cl.origin THEN 0 ELSE Inf],
        !.previous_city = [c \in DOMAIN m.cities |-> None],
        !.unvisited_cities = cities]

\* shortest_path_dijkstra_original: one pass of the main loop
loop_dijkstra_original(m, cl, st) ==
    IF st.unvisited_cities = <<>> THEN [st EXCEPT !.pc = "results"]
    ELSE LET c == min_city(st.unvisited_cities, st.cost)
             unvisited == list_remove(st.unvisited_cities, c)
             relaxed == relax_original(m, c, 1,
                            [cost |-> st.cost, previous_city |-> st.previous_city])
         IN IF c = cl.destination
            THEN [st EXCEPT !.pc = "results", !.unvisited_cities = unvisited]
            ELSE [st EXCEPT !.unvisited_cities = unvisited,
                            !.cost = relaxed.cost,
                            !.previous_city = relaxed.previous_city]

\* shortest_path_dijkstra_priority_queue: initialize data structures
init_dijkstra_priority_queue(m, cl, cities, st) ==
    LET cost_ == [c \in DOMAIN m.cities |-> IF c = cl.origin THEN 0 ELSE Inf]
    IN [st EXCEPT
           !.pc = "loop",
           !.cost = cost_,
           !.previous_city = [c \in DOMAIN m.cities |-> None],
           !.pq = push_all(cities, 1, cost_, NewQueue)]

\* the main loop keeping the queue entries of the relaxed neighbours as they were
loop_dijkstra_priority_queue_without_push(m, cl, st) ==
    IF len(st.pq) = 0 THEN [st EXCEPT !.pc = "results"]
    ELSE LET p == pop(st.pq)
             relaxed == relax_priority_queue(m, p.value, 1,
                            [cost |-> st.cost, previous_city |-> st.previous_city,
                             pq |-> p.pq])
         IN IF p.value = cl.destination
            THEN [st EXCEPT !.pc = "results", !.pq = p.pq]
            ELSE [st EXCEPT !.pq = p.pq,
                            !.cost = relaxed.cost,
                            !.previous_city = relaxed.previous_city]

\* shortest_path_dijkstra_priority_queue: one pass of the main loop
loop_dijkstra_priority_queue(m, cl, st) ==
    IF len(st.pq) = 0 THEN [st EXCEPT !.pc = "results"]
    ELSE LET p == pop(st.pq)
             relaxed == relax_priority_queue(m, p.value, 1,
                            [cost |-> st.cost, previous_city |-> st.previous_city,
                             pq |-> p.pq])
         IN IF p.value = cl.destination
            THEN [st EXCEPT !.pc = "results", !.pq = p.pq]
            ELSE [st EXCEPT !.pq = relaxed.pq,
                            !.cost = relaxed.cost,
                            !.previous_city = relaxed.previous_city]

\* shortest_path_a_star: initialize data structures
init_a_star(m, cl, st) ==
    LET estimate == Add(0, euclidean_distance(m, cl.origin, cl.destination))
    IN [st EXCEPT
           !.pc = "loop",
           !.closed_set = {},
           !.previous_city = EmptyDict,
           !.cost_from_origin = Put(EmptyDict, cl.origin, 0),
           !.estimated_total_cost = Put(EmptyDict, cl.origin, estimate),
           !.pq = push(NewQueue, cl.origin, estimate)]

\* shortest_path_a_star: one pass of the main loop
loop_a_star(m, cl, st) ==
    IF len(st.pq) = 0 THEN [st EXCEPT !.pc = "results"]
    ELSE LET p == pop(st.pq)
             closed == st.closed_set \cup {p.value}
             relaxed == relax_a_star(m, p.value, cl.destination, closed, 1,
                            [cost_from_origin |-> st.cost_from_origin,
                             estimated_total_cost |-> st.estimated_total_cost,
                             previous_city |-> st.previous_city, pq |-> p.pq])
         IN IF p.value = cl.destination
            THEN [st EXCEPT !.pc = "results", !.closed_set = closed, !.pq = p.pq]
            ELSE [st EXCEPT !.closed_set = closed,
                            !.pq = relaxed.pq,
                            !.previous_city = relaxed.previous_city,
                            !.cost_from_origin = relaxed.cost_from_origin,
                            !.estimated_total_cost = relaxed.estimated_total_cost]

\* the (path, total_cost) a search that left its main loop returns
search_results(cl, st) ==
    results(cl.origin, cl.destination, st.previous_city,
            IF cl.alg = "a-star" THEN st.cost_from_origin ELSE st.cost)

\* the algorithms dict: the initialisation and the main loop of each algorithm
init_search(m, cl, cities) ==
    IF cl.alg = "dij-o" THEN init_dijkstra_original(m, cl, cities, EmptySearch)
    ELSE IF cl.alg = "dij-pq" THEN init_dijkstra_priority_queue(m, cl, cities, EmptySearch)
    ELSE init_a_star(m, cl, EmptySearch)

loop_search(m, cl, st) ==
    IF cl.alg = "dij-o" THEN loop_dijkstra_original(m, cl, st)
    ELSE IF cl.alg = "dij-pq" THEN loop_dijkstra_priority_queue(m, cl, st)
    ELSE loop_a_star(m, cl, st)

RECURSIVE run_search(_, _, _)
run_search(m, cl, st) ==
    IF st.pc = "results" THEN search_results(cl, st)
    ELSE run_search(m, cl, loop_search(m, cl, st))

\* a whole call algorithms[alg](map_, origin, destination) on names of the Map,
\* the dict yielding its cities in the order given
shortest_path(m, alg, origin_city_name, destination_city_name, cities) ==
    LET cl == [alg |-> alg, origin |-> origin_city_name,
               destination |-> destination_city_name]
    IN run_search(m, cl, init_search(m, cl, cities))

----------------------------------------------------------------------------
(* The routing call, one action per step *)

PQ == [queue |-> queue, entries |-> entries, counter |-> counter]

SetPQ(pq) ==
    /\ queue' = pq.queue
    /\ entries' = pq.entries
    /\ counter' = pq.counter

SearchState ==
    [pc |-> pc, cost |-> cost, previous_city |-> previous_city,
     unvisited_cities |-> unvisited_cities, closed_set |-> closed_set,
     cost_from_origin |-> cost_from_origin,
     estimated_total_cost |-> estimated_total_cost, pq |-> PQ]

SetSearchState(st) ==
    /\ pc' = st.pc
    /\ cost' = st.cost
    /\ previous_city' = st.previous_city
    /\ unvisited_cities' = st.unvisited_cities
    /\ closed_set' = st.closed_set
    /\ cost_from_origin' = st.cost_from_origin
    /\ estimated_total_cost' = st.estimated_total_cost
    /\ queue' = st.pq.queue
    /\ entries' = st.pq.entries
    /\ counter' = st.pq.counter

\* entry of a routing function: _safe_cities raises or the search begins
Call(alg, origin_city_name, destination_city_name) ==
    /\ pc = "idle"
    /\ call' = [alg |-> alg, origin |-> origin_city_name,
                destination |-> destination_city_name]
    /\ error' = safe_cities(map_, origin_city_name, destination_city_name)
    /\ pc' = IF error' # None THEN "error" ELSE "init"
    /\ UNCHANGED <<mapVars, result, searchVars, pqVars, driverVars, builderVars>>

InitDijkstraOriginal ==
    /\ pc = "init" /\ call.alg = "dij-o"
    /\ \E cities \in values(map_) :
          SetSearchState(init_dijkstra_original(map_, call, cities, SearchState))
    /\ UNCHANGED <<mapVars, call, error, result, driverVars, builderVars>>

\* the main loop emptying city.roads as it goes through it
LoopDijkstraOriginalConsumingRoads ==
    /\ pc = "loop" /\ call.alg = "dij-o"
    /\ SetSearchState(loop_dijkstra_original(map_, call, SearchState))
    /\ map_' = IF unvisited_cities = <<>> \/ min_city(unvisited_cities, cost) = call.destination
               THEN map_
               ELSE [map_ EXCEPT !.cities[min_city(unvisited_cities, cost)].roads = <<>>]
    /\ UNCHANGED <<call, error, result, driverVars, builderVars>>

LoopDijkstraOriginal ==
    /\ pc = "loop" /\ call.alg = "dij-o"
    /\ SetSearchState(loop_dijkstra_original(map_, call, SearchState))
    /\ UNCHANGED <<mapVars, call, error, result, driverVars, builderVars>>

InitDijkstraPriorityQueue ==
    /\ pc = "init" /\ call.alg = "dij-pq"
    /\ \E cities \in values(map_) :
          SetSearchState(init_dijkstra_priority_queue(map_, call, cities, SearchState))
    /\ UNCHANGED <<mapVars, call, error, result, driverVars, builderVars>>

LoopDijkstraPriorityQueue ==
    /\ pc = "loop" /\ call.alg = "dij-pq"
    /\ SetSearchState(loop_dijkstra_priority_queue(map_, call, SearchState))
    /\ UNCHANGED <<mapVars, call, error, result, driverVars, builderVars>>

InitAStar ==
    /\ pc = "init" /\ call.alg = "a-star"
    /\ SetSearchState(init_a_star(map_, call, SearchState))
    /\ UNCHANGED <<mapVars, call, error, result, driverVars, builderVars>>

LoopAStar ==
    /\ pc = "loop" /\ call.alg = "a-star"
    /\ SetSearchState(loop_a_star(map_, call, SearchState))
    /\ UNCHANGED <<mapVars, call, error, result, driverVars, builderVars>>

\* return _results(...)
Results ==
    /\ pc = "results"
    /\ result' = search_results(call, SearchState)
    /\ pc' = "done"
    /\ UNCHANGED <<mapVars, call, error, searchVars, pqVars, driverVars, builderVars>>

\* the call is over: its result or error has reached the caller and the
\* per-call structures are discarded
Return ==
    /\ pc \in {"done", "error"}
    /\ pc' = "idle"
    /\ call' = NoCall
    /\ error' = None
    /\ result' = None
    /\ cost' = EmptyDict
    /\ previous_city' = EmptyDict
    /\ unvisited_cities' = <<>>
    /\ closed_set' = {}
    /\ cost_from_origin' = EmptyDict
    /\ estimated_total_cost' = EmptyDict
    /\ queue' = NewQueue.queue
    /\ entries' = NewQueue.entries
    /\ counter' = NewQueue.counter
    /\ UNCHANGED <<mapVars, driverVars, builderVars>>

Next ==
    \/ \E alg \in ALGORITHMS :
         \E o \in DOMAIN map_.cities \cup {UnknownName} :
           \E d \in DOMAIN map_.cities \cup {UnknownName} : Call(alg, o, d)
    \/ InitDijkstraOriginal
    \/ LoopDijkstraOriginal
    \/ InitDijkstraPriorityQueue
    \/ LoopDijkstraPriorityQueue
    \/ InitAStar
    \/ LoopAStar
    \/ Results
    \/ Return

Spec == Init /\ [][Next]_vars

----------------------------------------------------------------------------
(* Reference notions the claims are stated with *)

Min(S) == CHOOSE x \in S : \A y \in S : x <= y

RECURSIVE MinPathCost(_, _, _, _)
\* least total road length over all road paths from c to d that avoid seen
MinPathCost(m, c, d, seen) ==
    IF c = d THEN 0
    ELSE LET onward ==
                 { i \in 1..Len(m.cities[c].roads) :
                       other_end(m.cities[c].roads[i], c) \notin seen }
             costs ==
                 { Add(length(m, m.cities[c].roads[i]),
                       MinPathCost(m, other_end(m.cities[c].roads[i], c), d,
                                   seen \cup {other_end(m.cities[c].roads[i], c)})) :
                     i \in onward }
         IN IF costs = {} THEN Inf ELSE Min(costs)

ReferenceCost == MinPathCost(map_, call.origin, call.destination, {call.origin})

RECURSIVE ConnectedTo(_, _)
\* the cities joined to one of `reached` by a chain of roads of the Map's list
ConnectedTo(m, reached) ==
    LET more == { c \in DOMAIN m.cities :
                    \E i \in 1..Len(m.roads) :
                        \/ m.roads[i].city_1 = c /\ m.roads[i].city_2 \in reached
                        \/ m.roads[i].city_2 = c /\ m.roads[i].city_1 \in reached }
    IN IF more \subseteq reached THEN reached ELSE ConnectedTo(m, reached \cup more)

Reachable == call.destination \in ConnectedTo(map_, {call.origin})

\* a Road of the Map joins a and b
Joined(m, a, b) ==
    \E i \in 1..Len(m.roads) :
        \/ m.roads[i].city_1 = a /\ m.roads[i].city_2 = b
        \/ m.roads[i].city_1 = b /\ m.roads[i].city_2 = a

RECURSIVE PathLength(_, _, _)
\* sum of the distances between consecutive cities of path, from position i on
PathLength(m, path, i) ==
    IF i >= Len(path) THEN 0
    ELSE euclidean_distance(m, path[i], path[i + 1]) + PathLength(m, path, i + 1)

Returned == pc = "done"

----------------------------------------------------------------------------
(* Claims on the routing functions *)

\* C1: for every Map and pair of names in it the three algorithms return the
\* same total_cost: the cost a call returns is the cost every algorithm returns
\* for that Map and pair, whatever order the dict yields the cities in.
C1_SameTotalCost ==
    Returned =>
        \A alg \in ALGORITHMS : \A cities \in values(map_) :
            shortest_path(map_, alg, call.origin, call.destination, cities).total_cost
                = result.total_cost

\* C2: shortest_path_a_star returns, for every reachable pair, the least total
\* road length over all road paths from origin to destination.
C2_AStarCostIsMinimum ==
    (Returned /\ call.alg = "a-star" /\ Reachable) =>
        result.total_cost = ReferenceCost

\* C3: both Dijkstra variants return, for every reachable pair, the least total
\* road length over all road paths from origin to destination.
C3_DijkstraCostIsMinimum ==
    (Returned /\ call.alg \in {"dij-o", "dij-pq"} /\ Reachable) =>
        result.total_cost = ReferenceCost

C3_Witness ==
    /\ Returned /\ call.alg = "dij-pq" /\ Reachable
    /\ Len(result.path) >= 4
    /\ result.total_cost = ReferenceCost
    /\ \E c \in DOMAIN map_.cities \ {call.origin, call.destination} :
          /\ Joined(map_, call.origin, c) /\ Joined(map_, c, call.destination)
          /\ euclidean_distance(map_, call.origin, c)
               + euclidean_distance(map_, c, call.destination) > result.total_cost

\* C4: a non-empty path returned by any of the three functions starts with the
\* origin, ends with the destination, has a Road of the Map between every two
\* consecutive names, and the lengths of those roads sum to total_cost.
C4_PathIsARouteOfThatCost ==
    (Returned /\ result.path # <<>>) =>
        /\ result.path[1] = call.origin
        /\ result.path[Len(result.path)] = call.destination
        /\ \A i \in 1..(Len(result.path) - 1) :
               Joined(map_, result.path[i], result.path[i + 1])
        /\ PathLength(map_, result.path, 1) = result.total_cost

C4_Witness ==
    /\ Returned /\ call.alg = "a-star"
    /\ Len(result.path) >= 3
    /\ result.total_cost > ReferenceCost

\* C5: a destination of the Map with no road-connected path from the origin
\* gets the empty path and infinite cost from each of the three functions.
C5_UnreachableIsEmptyAndInfinite ==
    (Returned /\ ~Reachable) =>
        (result.path = <<>> /\ result.total_cost = Inf)

C5_Witness ==
    /\ Returned /\ ~Reachable
    /\ Len(map_.cities[call.origin].roads) >= 2
    /\ Len(map_.cities[call.destination].roads) >= 1
    /\ result.path = <<>>

\* C6: routing from a city of the Map to itself returns ([origin], 0),
\* whatever roads and other cities the Map holds.
C6_SameCityIsTrivial ==
    (Returned /\ call.origin = call.destination) =>
        (result.path = <<call.origin>> /\ result.total_cost = 0)

C6_Witness ==
    /\ Returned /\ call.origin = call.destination
    /\ Len(map_.cities[call.origin].roads) >= 2
    /\ \E i \in 1..Len(map_.cities[call.origin].roads) :
           length(map_, map_.cities[call.origin].roads[i]) = 0
    /\ result.path = <<call.origin>>

SearchUntouched ==
    /\ cost = EmptyDict
    /\ previous_city = EmptyDict
    /\ unvisited_cities = <<>>
    /\ closed_set = {}
    /\ cost_from_origin = EmptyDict
    /\ estimated_total_cost = EmptyDict
    /\ queue = <<>>
    /\ entries = EmptyDict
    /\ counter = 0

\* C7: a call whose origin or destination name is not in the Map fails with
\* the unknown-city error, with no cost map, predecessor map or queue set up
\* and no (path, cost) returned.
C7_UnknownCityFailsFirst ==
    (pc # "idle" /\ (~InMap(call.origin) \/ ~InMap(call.destination))) =>
        /\ pc = "error"
        /\ error = "Unknown city"
        /\ result = None
        /\ SearchUntouched

C7_Witness ==
    /\ pc = "error" /\ error = "Unknown city"
    /\ InMap(call.origin) /\ ~InMap(call.destination)
    /\ Len(map_.roads) >= 1

\* C8: no step of a routing call, succeeding or failing, changes the Map:
\* cities, their names, coordinates and road lists, and the Map's road list.
C8_RoutingLeavesMapUnchanged ==
    [][map_' = map_]_vars

C8_Witness ==
    /\ Returned /\ Len(result.path) >= 3
    /\ Len(map_.roads) >= 5

----------------------------------------------------------------------------
(* The PriorityQueue on its own: any sequence of push, pop and remove.     *)
(* live keeps, for every value pushed and not popped or removed since, the *)
(* priority and the ordinal of its last push and the ordinal of the push   *)
(* that inserted it; popped keeps what the last pop returned or raised and *)
(* the live values it chose among.                                         *)

PQValues == {"x", "y", "z"}

\* priorities pushed are 0..MaxPriority
MaxPriority == 1

\* push calls in a run
MaxPushes == 4

InitPQ ==
    /\ map_ = EmptyMap
    /\ IdleState
    /\ EmptyQueueState
    /\ NoDriver
    /\ NoBuilder

Push(value, priority) ==
    /\ pushes < MaxPushes
    /\ SetPQ(push(PQ, value, priority))
    /\ live' = Put(live, value,
                   [priority |-> priority, stamp |-> pushes,
                    inserted |-> IF value \in DOMAIN live THEN live[value].inserted
                                 ELSE pushes])
    /\ pushes' = pushes + 1
    /\ popped' = NoPop
    /\ UNCHANGED <<mapVars, callVars, searchVars, builderVars>>

Pop ==
    /\ SetPQ(pop(PQ).pq)
    /\ popped' = [value |-> pop(PQ).value, error |-> pop(PQ).error, among |-> live,
                  heap |-> Len(queue)]
    /\ live' = IF pop(PQ).value \in DOMAIN live THEN Del(live, pop(PQ).value) ELSE live
    /\ UNCHANGED <<mapVars, callVars, searchVars, builderVars, pushes>>

\* remove raises KeyError, and changes nothing, on a value that is not queued
Remove(value) ==
    /\ IF contains(PQ, value)
       THEN SetPQ(remove(PQ, value))
       ELSE UNCHANGED pqVars
    /\ popped' = [NoPop EXCEPT !.error = IF contains(PQ, value) THEN None ELSE "KeyError"]
    /\ live' = IF value \in DOMAIN live THEN Del(live, value) ELSE live
    /\ UNCHANGED <<mapVars, callVars, searchVars, builderVars, pushes>>

NextPQ ==
    \/ \E value \in PQValues : \E priority \in 0..MaxPriority : Push(value, priority)
    \/ Pop
    \/ \E value \in PQValues : Remove(value)

SpecPQ == InitPQ /\ [][NextPQ]_vars

----------------------------------------------------------------------------
(* Claims on the PriorityQueue *)

\* C9: pop removes and returns a live value whose last pushed priority is
\* least among the live values, earlier priorities of a value having no
\* effect; the value is live no more afterwards, so that pushing it several
\* times and popping once leaves one value fewer in the queue.
C9_PopReturnsLeastCurrentPriority ==
    popped.value # None =>
        /\ popped.value \in DOMAIN popped.among
        /\ \A w \in DOMAIN popped.among :
               popped.among[popped.value].priority <= popped.among[w].priority
        /\ ~contains(PQ, popped.value)
        /\ len(PQ) = Cardinality(DOMAIN popped.among) - 1

\* push(x, high), push(x, low), pop: x comes back, the queue is empty and
\* the entry of the first push is left behind as a removed one
C9_Witness ==
    /\ popped.value = "x" /\ pushes = 2
    /\ DOMAIN popped.among = {"x"}
    /\ len(PQ) = 0
    /\ Len(queue) = 1 /\ queue[1].value = REMOVED
    /\ queue[1].priority > popped.among["x"].priority

\* C10: among the live values of least priority pop returns the one whose
\* last push (insertion or update) is the earliest.
C10_TiesPopInPushOrder ==
    popped.value # None =>
        \A w \in DOMAIN popped.among :
            popped.among[w].priority = popped.among[popped.value].priority
                => popped.among[popped.value].stamp <= popped.among[w].stamp

\* a value inserted first and then updated to the same priority pops after
\* the value that was queued in between
C10_Witness ==
    /\ popped.value # None
    /\ \E w \in DOMAIN popped.among \ {popped.value} :
           /\ popped.among[w].priority = popped.among[popped.value].priority
           /\ popped.among[w].stamp > popped.among[popped.value].stamp
           /\ popped.among[w].inserted < popped.among[popped.value].inserted

\* C11: pop fails with the empty-queue error exactly when the queue holds no
\* live value, also when the heap holds nothing but removed entries;
\* otherwise it returns a live value, never the mark of a removed entry.
C11_PopFailsExactlyWhenNothingIsLive ==
    (popped.value # None \/ popped.error = "Pop called on empty priority queue.") =>
        /\ popped.error # None <=> DOMAIN popped.among = {}
        /\ popped.error # None => popped.value = None
        /\ popped.error = None =>
              /\ popped.value \in DOMAIN popped.among
              /\ popped.value # REMOVED

\* two pushes, both values removed, and a pop that finds a heap of two
\* removed entries: it fails and leaves the heap empty
C11_Witness ==
    /\ popped.error = "Pop called on empty priority queue."
    /\ popped.heap = 2
    /\ pushes = 2
    /\ queue = <<>>

\* C12: after any sequence of push, pop and remove, contains(v) is true
\* exactly when v was pushed and neither popped nor removed since its last
\* push, len() is the number of such values, and the push of a value the
\* queue holds leaves len() as it was.
C12_ContainsAndLenFollowTheLiveValues ==
    /\ [](/\ \A v \in PQValues : contains(PQ, v) <=> v \in DOMAIN live
          /\ len(PQ) = Cardinality(DOMAIN live))
    /\ [][\A v \in PQValues : \A priority \in 0..MaxPriority :
            (Push(v, priority) /\ contains(PQ, v))
            => Cardinality(DOMAIN entries') = len(PQ)]_vars

\* x pushed twice and another value pushed and removed: three entries in
\* the heap, one value in the queue
C12_Witness ==
    /\ pushes = 3
    /\ Len(queue) = 3
    /\ len(PQ) = 1
    /\ contains(PQ, "x")
    /\ popped = NoPop

----------------------------------------------------------------------------
(* The Map on its own: any sequence of create_city and create_road calls,  *)
(* failed ones included.  error keeps the message of the error the last    *)
(* call raised, or None when it returned.                                  *)

MapNames == {"A", "B", "C"}

\* names given to the calls: the names, None and the empty string
NameInputs == MapNames \cup {None, ""}

\* x given to create_city is None or one of 0..MaxCoord
MaxCoord == 1

XInputs == {NoCoord} \cup 0..MaxCoord

\* y given to create_city is None or 0: create_city tells a y from another
\* only by its being None
YInputs == {NoCoord, 0}

InitMap ==
    /\ map_ = EmptyMap
    /\ IdleState
    /\ EmptyQueueState
    /\ NoDriver
    /\ NoBuilder

CreateCity(name, x, y) ==
    /\ pc = "idle"
    /\ map_' = create_city(map_, name, x, y).map
    /\ error' = create_city(map_, name, x, y).error
    /\ UNCHANGED <<pc, call, result, searchVars, pqVars, driverVars, builderVars>>

CreateRoad(city_1_name, city_2_name) ==
    /\ pc = "idle"
    /\ map_' = create_road(map_, city_1_name, city_2_name).map
    /\ error' = create_road(map_, city_1_name, city_2_name).error
    /\ UNCHANGED <<pc, call, result, searchVars, pqVars, driverVars, builderVars>>

NextMap ==
    \/ \E name \in NameInputs : \E x \in XInputs : \E y \in YInputs :
          CreateCity(name, x, y)
    \/ \E city_1_name \in NameInputs : \E city_2_name \in NameInputs :
          CreateRoad(city_1_name, city_2_name)

SpecMap == InitMap /\ [][NextMap]_vars

\* the two endpoints of a road, as a set
Ends(road) == {road.city_1, road.city_2}

\* how many times road stands in a list of roads
Occurrences(list, road) == Cardinality({ i \in 1..Len(list) : list[i] = road })

----------------------------------------------------------------------------
(* Claims about the Map, under SpecMap                                      *)

\* C13: after any sequence of create_city and create_road calls every Road
\* has two distinct endpoints and no two Roads join the same unordered pair
\* of cities; create_road(a, a) fails, and create_road(a, b) fails when a
\* Road between a and b exists in either order.
C13_RoadsJoinDistinctPairsOnce ==
    /\ [](\A i \in 1..Len(map_.roads) :
            /\ map_.roads[i].city_1 # map_.roads[i].city_2
            /\ \A j \in 1..Len(map_.roads) :
                  Ends(map_.roads[i]) = Ends(map_.roads[j]) => i = j)
    /\ [][\A a \in NameInputs : \A b \in NameInputs :
            ( /\ CreateRoad(a, b)
              /\ a \in DOMAIN map_.cities
              /\ b \in DOMAIN map_.cities
              /\ \/ a = b
                 \/ \E i \in 1..Len(map_.roads) : Ends(map_.roads[i]) = {a, b} )
            => (error' # None /\ map_' = map_)]_vars

\* a Road B-A exists and the last call, which failed, asked for one that
\* exists already
C13_Witness ==
    /\ error = "Road already exists"
    /\ \E i \in 1..Len(map_.roads) :
          map_.roads[i] = [city_1 |-> "B", city_2 |-> "A"]
    /\ Len(map_.roads) >= 2

\* C14: create_road fails with the unknown-city error when either name, the
\* empty name and None included, is not a city of the Map, so the endpoints
\* of every Road are cities of the Map.
C14_RoadsJoinCitiesOfTheMap ==
    /\ [](\A i \in 1..Len(map_.roads) : Ends(map_.roads[i]) \subseteq DOMAIN map_.cities)
    /\ [][\A a \in NameInputs : \A b \in NameInputs :
            ( /\ CreateRoad(a, b)
              /\ (a \notin DOMAIN map_.cities \/ b \notin DOMAIN map_.cities) )
            => (error' = "Unknown city" /\ map_' = map_)]_vars

\* the last call failed on an unknown city, in a Map that holds two cities
\* and a Road, and not all the names
C14_Witness ==
    /\ error = "Unknown city"
    /\ Len(map_.roads) = 1
    /\ Cardinality(DOMAIN map_.cities) = 2

\* C15: create_city(name, x, y) fails when name is the name of a city of the
\* Map and leaves the Map as it was: the city keeps its coordinates and its
\* roads, and the number of cities is the same.
C15_DuplicateCityFailsAndKeepsTheMap ==
    [][\A name \in NameInputs : \A x \in XInputs : \A y \in YInputs :
         (CreateCity(name, x, y) /\ name \in DOMAIN map_.cities)
         => /\ error' = "Name already exists"
            /\ map_'.cities[name] = map_.cities[name]
            /\ DOMAIN map_'.cities = DOMAIN map_.cities
            /\ map_' = map_]_vars

\* the call failed on a name already there, whose city has a Road and
\* coordinates other than (0, 0)
C15_Witness ==
    /\ error = "Name already exists"
    /\ \E name \in DOMAIN map_.cities :
          /\ map_.cities[name].x = 1
          /\ Len(map_.cities[name].roads) >= 1

\* C16: create_city fails when the name is None or empty, or x or y is None,
\* and then no city is registered; 0 is a coordinate like any other.
C16_CityNeedsNameAndCoordinates ==
    [][\A name \in NameInputs : \A x \in XInputs : \A y \in YInputs :
         CreateCity(name, x, y) =>
            IF name \in {None, ""} \/ x = NoCoord \/ y = NoCoord
            THEN error' # None /\ map_' = map_
            ELSE name \notin DOMAIN map_.cities =>
                   /\ error' = None
                   /\ name \in DOMAIN map_'.cities
                   /\ map_'.cities[name].x = x
                   /\ map_'.cities[name].y = y]_vars

\* a city stands at (0, 0) and the last call failed for its y
C16_Witness ==
    /\ error = "Empty y"
    /\ \E name \in DOMAIN map_.cities :
          map_.cities[name].x = 0 /\ map_.cities[name].y = 0

\* C17: a create_road that succeeds appends the Road once to the list of
\* each endpoint and to the list of the Map; a Road is in the list of the Map
\* exactly when it is in the lists of its two endpoints and of no other city;
\* every Road of a city's list has the city as an endpoint; the list of the
\* Map is in order of creation.
C17_RoadsAreListedByBothEndsAndTheMap ==
    /\ [](/\ \A i \in 1..Len(map_.roads) : \A c \in DOMAIN map_.cities :
              Occurrences(map_.cities[c].roads, map_.roads[i])
                 = IF c \in Ends(map_.roads[i]) THEN 1 ELSE 0
          /\ \A i \in 1..Len(map_.roads) : Occurrences(map_.roads, map_.roads[i]) = 1
          /\ \A c \in DOMAIN map_.cities : \A i \in 1..Len(map_.cities[c].roads) :
              /\ c \in Ends(map_.cities[c].roads[i])
              /\ Occurrences(map_.roads, map_.cities[c].roads[i]) = 1)
    /\ [][\A a \in NameInputs : \A b \in NameInputs :
            (CreateRoad(a, b) /\ error' = None)
            => /\ map_'.roads = Append(map_.roads, [city_1 |-> a, city_2 |-> b])
               /\ \A c \in DOMAIN map_.cities :
                     map_'.cities[c].roads =
                        IF c \in {a, b}
                        THEN Append(map_.cities[c].roads, [city_1 |-> a, city_2 |-> b])
                        ELSE map_.cities[c].roads]_vars

\* three Roads, made without a failure in between at the end
C17_Witness ==
    /\ error = None
    /\ Len(map_.roads) = 3
    /\ \E c \in DOMAIN map_.cities : Len(map_.cities[c].roads) = 2

\* C18: for any two cities c and other of the Map, other = c included,
\* c.has_road_to(other) is true exactly when the list of c holds a Road whose
\* other end, the endpoint that is not c, is other.
C18_HasRoadToMeansOtherEnd ==
    \A c \in DOMAIN map_.cities : \A other \in DOMAIN map_.cities :
       has_road_to(map_, c, other)
          <=> \E i \in 1..Len(map_.cities[c].roads) :
                 /\ other # c
                 /\ Ends(map_.cities[c].roads[i]) = {c, other}

\* C19: Road.other_end(city) is city_2 when city is city_1, city_1 when city
\* is city_2, and fails when city is neither endpoint of the Road.
C19_OtherEnd ==
    \A i \in 1..Len(map_.roads) : \A c \in DOMAIN map_.cities \cup {UnknownName} :
       /\ c = map_.roads[i].city_1 => other_end(map_.roads[i], c) = map_.roads[i].city_2
       /\ c = map_.roads[i].city_2 => other_end(map_.roads[i], c) = map_.roads[i].city_1
       /\ c \notin Ends(map_.roads[i]) => other_end(map_.roads[i], c) = None

\* a search is following the roads of a Map that has several
C19_Witness ==
    /\ pc = "loop"
    /\ Len(map_.roads) >= 3
    /\ \E c \in DOMAIN previous_city : previous_city[c] # None

\* C20: in shortest_path_a_star a neighbour of the open set whose g-score
\* improves has its entry in the queue updated, so at every turn of the loop
\* every city of the open set is queued with its estimated_total_cost as
\* priority.
C20_OpenSetPriorityIsEstimatedTotalCost ==
    (pc = "loop" /\ call.alg = "a-star") =>
        \A c \in DOMAIN entries : entries[c].priority = estimated_total_cost[c]

----------------------------------------------------------------------------
(* Claims about the course of a search, under Spec and SpecFair            *)

\* a routing function runs from its entry to its return without waiting
\* for anything
SearchStep ==
    \/ InitDijkstraOriginal
    \/ LoopDijkstraOriginal
    \/ InitDijkstraPriorityQueue
    \/ LoopDijkstraPriorityQueue
    \/ InitAStar
    \/ LoopAStar
    \/ Results

\* a call is between its entry and its return
Running == pc \in {"init", "loop", "results"}

\* Weak fairness of SearchStep, WF_vars(SearchStep), written out: a step of
\* the search is possible exactly while the call is Running (the step from
\* "init" and the one from "results" change pc, and C22 checks that a turn
\* of the loop changes the state), so ENABLED <<SearchStep>>_vars is Running.
SpecFair == Spec /\ ([]<>(~Running) \/ []<><<SearchStep>>_vars)

\* the cities of the unvisited list, the unvisited queue or the open set
Collection ==
    IF call.alg = "dij-o"
    THEN { unvisited_cities[i] : i \in 1..Len(unvisited_cities) }
    ELSE DOMAIN entries

\* the cities the main loop has taken out of the collection
Removed ==
    IF call.alg = "a-star" THEN closed_set
    ELSE DOMAIN map_.cities \ Collection

\* C21: in shortest_path_dijkstra_priority_queue a relaxation that improves
\* the cost of a neighbour updates the neighbour's entry in the queue, so at
\* every turn of the loop every city still queued has cost[city] as priority.
C21_QueuePriorityIsCost ==
    (pc = "loop" /\ call.alg = "dij-pq") =>
        \A c \in DOMAIN entries : entries[c].priority = cost[c]

\* a city whose cost improved twice: its entry of the first improvement is
\* left in the heap as a removed one
C21_Witness ==
    /\ pc = "loop" /\ call.alg = "dij-pq"
    /\ \E i \in 1..Len(queue) : \E c \in DOMAIN entries :
          /\ queue[i].value = REMOVED
          /\ queue[i].priority # Inf
          /\ entries[c].priority < queue[i].priority
          /\ entries[c].priority > 0

\* C22: every routing call ends: each turn of the main loop of each of the
\* three algorithms takes one city out of the collection, a city taken out
\* never comes back, and the loop ends when the destination is taken out or
\* the collection is empty; so the loop takes at most one turn per city.
C22_SearchTerminates ==
    /\ [](pc = "loop" =>
            /\ loop_search(map_, call, SearchState) # SearchState
            /\ Collection \cap Removed = {}
            /\ call.alg = "dij-o" => Len(unvisited_cities) = Cardinality(Collection))
    /\ [][pc = "loop" =>
            \/ /\ Collection = {}
               /\ pc' = "results"
               /\ Removed' = Removed
            \/ \E c \in Collection \ Removed :
                  /\ Removed' = Removed \cup {c}
                  /\ pc' = IF c = call.destination THEN "results" ELSE "loop"]_vars
    /\ (pc = "init") ~> (pc = "done")

\* a search that ran out of cities: all six are out of the collection
C22_Witness ==
    /\ pc = "done"
    /\ Removed = DOMAIN map_.cities
    /\ Cardinality(Removed) = 6
    /\ result.path # <<>>

\* C23: in both Dijkstra variants the cost of a city taken out of the
\* unvisited collection is the length of a shortest way from the origin
\* (infinity when there is none), and no later relaxation changes the cost
\* or the predecessor of a city taken out.
C23_RemovedCitiesAreFinal ==
    /\ []((pc \in {"loop", "results"} /\ call.alg \in {"dij-o", "dij-pq"}) =>
            \A c \in Removed :
               cost[c] = MinPathCost(map_, call.origin, c, {call.origin}))
    /\ [][(pc = "loop" /\ call.alg \in {"dij-o", "dij-pq"}) =>
            \A c \in Removed :
               /\ cost'[c] = cost[c]
               /\ previous_city'[c] = previous_city[c]]_vars

\* the loop goes on with three cities out, one of them reached through
\* another city than the origin and one not reached at all
C23_Witness ==
    /\ pc = "loop" /\ call.alg \in {"dij-o", "dij-pq"}
    /\ Cardinality(Removed) >= 3
    /\ \E c \in Removed : cost[c] = Inf
    /\ \E c \in Removed :
          /\ cost[c] # Inf
          /\ previous_city[c] # None
          /\ previous_city[c] # call.origin

RECURSIVE Chain(_, _, _)
\* the cities met following the previous links from c, c first, for at most
\* n links
Chain(previous, c, n) ==
    IF Get(previous, c) = None \/ n = 0 THEN <<c>>
    ELSE <<c>> \o Chain(previous, Get(previous, c), n - 1)

NoRepeat(list) ==
    \A i \in 1..Len(list) : \A j \in 1..Len(list) : list[i] = list[j] => i = j

\* C24: in the three algorithms, at every point of the search, the origin
\* has no predecessor and the previous links followed from a city that has
\* one meet no city twice and end at the origin; so the backward walk of
\* _results ends and the path returned holds no city twice.
C24_PreviousLinksLeadToTheOrigin ==
    /\ pc \in {"loop", "results", "done"} =>
          /\ Get(previous_city, call.origin) = None
          /\ \A c \in DOMAIN previous_city :
                previous_city[c] # None =>
                   LET chain == Chain(previous_city, c, Cardinality(DOMAIN map_.cities))
                   IN /\ NoRepeat(chain)
                      /\ chain[Len(chain)] = call.origin
    /\ pc = "done" => NoRepeat(result.path)

\* a search of A* has linked a city to the origin through two others
C24_Witness ==
    /\ pc = "loop" /\ call.alg = "a-star"
    /\ \E c \in DOMAIN previous_city :
          Len(Chain(previous_city, c, Cardinality(DOMAIN map_.cities))) = 4

----------------------------------------------------------------------------
(* More about the Map, under SpecMap *)

\* C25: a create_road that fails, on an unknown city, on twice the same city
\* or on a Road that exists, leaves the list of the Map and the list of every
\* city as they were: no Road stands in one endpoint only or in the Map only.
C25_FailedCreateRoadChangesNothing ==
    [][\A a \in NameInputs : \A b \in NameInputs :
         (CreateRoad(a, b) /\ error' # None)
         => /\ map_'.roads = map_.roads
            /\ DOMAIN map_'.cities = DOMAIN map_.cities
            /\ \A c \in DOMAIN map_.cities :
                  map_'.cities[c].roads = map_.cities[c].roads]_vars

\* the last call asked for a Road from a city to itself, in a Map of two Roads
C25_Witness ==
    /\ error = "Cities cannot be the same"
    /\ Len(map_.roads) = 2
    /\ \E c \in DOMAIN map_.cities : Len(map_.cities[c].roads) = 2

----------------------------------------------------------------------------
(* More about the PriorityQueue, under SpecPQ *)

\* the removed entries the heap holds
Tombstones == Cardinality({ i \in 1..Len(queue) : queue[i].value = REMOVED })

\* C26: after any sequence of push, pop and remove the heap holds one entry
\* that is not a removed one for each live value, the mapping gives that
\* entry for the value and the entry carries the priority of the value's
\* last push, every other entry of the heap is a removed one, and no two
\* entries of the heap have the same sequence number.
C26_LazyDeletion ==
    /\ \A v \in DOMAIN live :
          /\ v \in DOMAIN entries
          /\ Cardinality({ i \in 1..Len(queue) : queue[i].value = v }) = 1
          /\ \E i \in 1..Len(queue) : queue[i] = entries[v]
          /\ entries[v].value = v
          /\ entries[v].priority = live[v].priority
    /\ \A i \in 1..Len(queue) :
          queue[i].value = REMOVED \/ queue[i].value \in DOMAIN live
    /\ \A i \in 1..Len(queue) : \A j \in 1..Len(queue) :
          queue[i].count = queue[j].count => i = j

\* two live values and two removed entries in the heap
C26_Witness ==
    /\ Cardinality(DOMAIN live) = 2
    /\ Len(queue) = 4
    /\ Tombstones = 2

\* C27 as stated: at any time the number of removed entries in the heap is
\* the number of push calls so far less the number of pop calls so far.  The
\* heap is empty at first, so this says that a push adds one removed entry,
\* a pop takes one away and a remove leaves their number as it is.
C27_TombstonesArePushesLessPops ==
    [][/\ (\E value \in PQValues : \E priority \in 0..MaxPriority :
              Push(value, priority)) => Tombstones' = Tombstones + 1
       /\ Pop => Tombstones' = Tombstones - 1
       /\ (\E value \in PQValues : Remove(value)) => Tombstones' = Tombstones]_vars

\* C27 amended: at any time the number of removed entries in the heap is the
\* number of heap entries less len(), and at most the number of push calls
\* so far less len(); a push adds one when the value is queued already and
\* none otherwise, a remove that succeeds adds one, and a pop adds none.
C27_TombstonesAreEntriesLessLive ==
    /\ [](/\ Tombstones = Len(queue) - len(PQ)
          /\ Tombstones <= pushes - len(PQ))
    /\ [][/\ \A value \in PQValues : \A priority \in 0..MaxPriority :
               Push(value, priority) =>
                  Tombstones' = Tombstones + IF contains(PQ, value) THEN 1 ELSE 0
          /\ \A value \in PQValues :
               Remove(value) =>
                  Tombstones' = Tombstones + IF contains(PQ, value) THEN 1 ELSE 0
          /\ Pop => Tombstones' <= Tombstones]_vars

\* x pushed three times: two removed entries, one live value
C27_Witness ==
    /\ pushes = 3
    /\ Tombstones = 2
    /\ len(PQ) = 1
    /\ Len(queue) = 3

----------------------------------------------------------------------------
(* builders.py: RETStreamMapBuilder.  A line of the stream is the list of  *)
(* its characters; coordinates are pairs <<column, row>>, and NoCoords     *)
(* stands for None where the code keeps a pair or None.                    *)

NoCoords == <<>>

\* columns = None in _scan; len(line) - 2 is -1 at the least
NoColumns == -2

RECURSIVE lstrip(_)
lstrip(line) ==
    IF line # <<>> /\ line[1] = " " THEN lstrip(Tail(line)) ELSE line

RECURSIVE rstrip(_)
rstrip(line) ==
    IF line # <<>> /\ line[Len(line)] = " "
    THEN rstrip(SubSeq(line, 1, Len(line) - 1)) ELSE line

\* str.strip
strip(line) == rstrip(lstrip(line))

\* str.lower, on the letters of the format
lower(character) ==
    IF character = "X" THEN "x"
    ELSE IF character = "O" THEN "o"
    ELSE character

\* (x, y) in missing
in_list(list, coords) == \E i \in 1..Len(list) : list[i] = coords

\* RETStreamMapBuilder._process_position, on the state of the scan
process_position(line_number, character, column, row, sc) ==
    LET ch == lower(character)
    IN IF ch = " " THEN sc
       ELSE IF ch = "#"
       THEN IF sc.start = NoCoords THEN [sc EXCEPT !.start = <<column, row>>]
            ELSE [sc EXCEPT !.error = "More than one start node."]
       ELSE IF ch = "@"
       THEN [sc EXCEPT !.expected = Append(@, <<column, row>>)]
       ELSE IF ch = "$"
       THEN IF sc.end = NoCoords THEN [sc EXCEPT !.end = <<column, row>>]
            ELSE [sc EXCEPT !.error = "More than one end node."]
       ELSE IF ch = "o"
       THEN IF sc.origin = NoCoords THEN [sc EXCEPT !.origin = <<column, row>>]
            ELSE [sc EXCEPT !.error = "More than one coordinates origin."]
       ELSE IF ch = "x"
       THEN [sc EXCEPT !.missing = Append(@, <<column, row>>)]
       ELSE [sc EXCEPT !.error = "Unknown character"]

RECURSIVE process_line(_, _, _, _, _)
\* _scan: for column, character in enumerate(line[1:-1]), from column on
process_line(line_number, line, column, row, sc) ==
    IF sc.error # None \/ column + 2 > Len(line) - 1 THEN sc
    ELSE process_line(line_number, line, column + 1, row,
             process_position(line_number, line[column + 2], column, row, sc))

RECURSIVE scan_lines(_, _, _)
\* _scan: for line in self.stream, from the line of number line_number on
scan_lines(lines, line_number, sc) ==
    IF sc.error # None \/ line_number > Len(lines) THEN sc
    ELSE LET line == strip(lines[line_number])
             counted == [sc EXCEPT !.rows = @ + 1]
             sized == IF counted.columns = NoColumns
                      THEN [counted EXCEPT !.columns = Len(line) - 2]
                      ELSE counted
         IN IF line = <<>> THEN scan_lines(lines, line_number + 1, sc)
            ELSE IF ~(line[1] = "|" /\ line[Len(line)] = "|")
            THEN [counted EXCEPT !.error = "Wrong format (missing bar)"]
            ELSE IF Len(line) - 2 # sized.columns
            THEN [sized EXCEPT !.error = "Wrong number of items"]
            ELSE scan_lines(lines, line_number + 1,
                     process_line(line_number, line, 0, sized.rows - 1, sized))

\* RETStreamMapBuilder._scan
scan(lines) ==
    LET sc == scan_lines(lines, 1,
                  [error |-> None, rows |-> 0, columns |-> NoColumns,
                   origin |-> NoCoords, start |-> NoCoords, end |-> NoCoords,
                   missing |-> <<>>, expected |-> <<>>])
        origin == IF sc.origin = NoCoords THEN <<0, sc.rows - 1>> ELSE sc.origin
    IN IF sc.error # None THEN sc
       ELSE IF (sc.start # NoCoords) # (sc.end # NoCoords)
       THEN [sc EXCEPT !.error = "Only one of start/end specified."]
       ELSE IF sc.expected # <<>> /\ ~(sc.start # NoCoords /\ sc.end # NoCoords)
       THEN [sc EXCEPT !.error = "Start or end not specified."]
       ELSE [sc EXCEPT !.origin = origin,
                       !.expected = <<sc.start>> \o @ \o <<sc.end>>]

\* RETStreamMapBuilder._transform_coordinates
transform_coordinates(coords, origin) ==
    <<coords[1] - origin[1], origin[2] - coords[2]>>

\* RETStreamMapBuilder._city_name
city_name(coords, origin) ==
    IF coords = NoCoords THEN None
    ELSE ToString(transform_coordinates(coords, origin)[1]) \o ":"
            \o ToString(transform_coordinates(coords, origin)[2])

\* RETStreamMapBuilder._create_city, while no call has raised
ret_create_city(built, coords, origin) ==
    IF built.error # None THEN built
    ELSE create_city(built.map, city_name(coords, origin), coords[1], coords[2])

\* RETStreamMapBuilder._create_road under its test in build, while no call has raised
ret_create_road(built, wanted, coords_1, coords_2, origin) ==
    IF built.error # None \/ ~wanted THEN built
    ELSE create_road(built.map, city_name(coords_1, origin), city_name(coords_2, origin))

\* build: the body of the two loops without the road to the upper right
build_cell_without_upper_right(built, x, y, sc, diag) ==
    IF in_list(sc.missing, <<x, y>>) THEN built
    ELSE LET with_city == ret_create_city(built, <<x, y>>, sc.origin)
             left == ret_create_road(with_city,
                        x > 0 /\ ~in_list(sc.missing, <<x - 1, y>>),
                        <<x, y>>, <<x - 1, y>>, sc.origin)
             upper_left == ret_create_road(left,
                        diag /\ x > 0 /\ y > 0 /\ ~in_list(sc.missing, <<x - 1, y - 1>>),
                        <<x, y>>, <<x - 1, y - 1>>, sc.origin)
         IN ret_create_road(upper_left,
                        y > 0 /\ ~in_list(sc.missing, <<x, y - 1>>),
                        <<x, y>>, <<x, y - 1>>, sc.origin)

\* RETStreamMapBuilder.build: the body of the two loops, for the cell (x, y)
build_cell(built, x, y, sc, diag) ==
    IF in_list(sc.missing, <<x, y>>) THEN built
    ELSE LET with_city == ret_create_city(built, <<x, y>>, sc.origin)
             left == ret_create_road(with_city,
                        x > 0 /\ ~in_list(sc.missing, <<x - 1, y>>),
                        <<x, y>>, <<x - 1, y>>, sc.origin)
             upper_left == ret_create_road(left,
                        diag /\ x > 0 /\ y > 0 /\ ~in_list(sc.missing, <<x - 1, y - 1>>),
                        <<x, y>>, <<x - 1, y - 1>>, sc.origin)
             upper == ret_create_road(upper_left,
                        y > 0 /\ ~in_list(sc.missing, <<x, y - 1>>),
                        <<x, y>>, <<x, y - 1>>, sc.origin)
         IN ret_create_road(upper,
                        diag /\ x < sc.columns - 1 /\ y > 0
                             /\ ~in_list(sc.missing, <<x + 1, y - 1>>),
                        <<x, y>>, <<x + 1, y - 1>>, sc.origin)

RECURSIVE build_cells(_, _, _, _, _)
\* build: for y in range(rows): for x in range(columns), from the cell (x, y) on
build_cells(built, x, y, sc, diag) ==
    IF y >= sc.rows \/ sc.columns <= 0 THEN built
    ELSE IF x >= sc.columns THEN build_cells(built, 0, y + 1, sc, diag)
    ELSE build_cells(build_cell(built, x, y, sc, diag), x + 1, y, sc, diag)

\* RETStreamMapBuilder.build: [map, error, spec]
build(lines, diag) ==
    LET sc == scan(lines)
        built == build_cells([map |-> EmptyMap, error |-> None], 0, 0, sc, diag)
    IN IF sc.error # None THEN [map |-> EmptyMap, error |-> sc.error, spec |-> None]
       ELSE IF built.error # None
       THEN [map |-> EmptyMap, error |-> built.error, spec |-> None]
       ELSE [map |-> built.map, error |-> None,
             spec |-> [rows |-> sc.rows, columns |-> sc.columns,
                       origin |-> sc.origin,
                       missing |-> [i \in 1..Len(sc.missing) |->
                                       transform_coordinates(sc.missing[i], sc.origin)],
                       start |-> city_name(sc.start, sc.origin),
                       end |-> city_name(sc.end, sc.origin),
                       expected |-> [i \in 1..Len(sc.expected) |->
                                        city_name(sc.expected[i], sc.origin)]]]

----------------------------------------------------------------------------
(* Building a reticle: RETStreamMapBuilder(stream, diagonal).build()       *)

\* grids of up to MaxRows rows and MaxCols columns
MaxRows == 2
MaxCols == 2

\* a city, a missing city, the origin of coordinates
Cells == {" ", "x", "o"}

BarLines(columns) ==
    { <<"|">> \o cells \o <<"|">> : cells \in [1..columns -> Cells] }

GridStreams ==
    UNION { [1..rows -> BarLines(columns)] :
               rows \in 1..MaxRows, columns \in 1..MaxCols }

\* streams with what the grids above leave out: no line at all, a routing
\* problem with its expected path, blanks around the bars, a blank line
\* and an upper-case origin, and streams _scan refuses
ExtraStreams ==
    { <<>>,
      << <<"|", " ", "$", "|">>, <<"|", "@", "x", "|">>, <<"|", "#", " ", "|">> >>,
      << <<" ", "|", " ", "O", "|">>, <<" ", " ">>, <<"|", "x", " ", "|", " ">> >>,
      << <<"|", " ", "|">>, <<"|", " ", " ", "|">> >>,
      << <<"x", " ", "|">> >>,
      << <<"|", "?", "|">> >>,
      << <<"|", "#", " ", "|">> >>,
      << <<"|", "#", "#", "$", "|">> >>,
      << <<"|", "@", " ", "|">> >> }

Streams == GridStreams \cup ExtraStreams

InitRET ==
    /\ map_ = EmptyMap
    /\ IdleState
    /\ EmptyQueueState
    /\ NoDriver
    /\ stream \in Streams
    /\ diagonal \in BOOLEAN

\* build() returns (map_, spec), or raises and returns nothing
Build ==
    /\ pc = "idle"
    /\ map_' = build(stream, diagonal).map
    /\ error' = build(stream, diagonal).error
    /\ result' = build(stream, diagonal).spec
    /\ pc' = "done"
    /\ UNCHANGED <<call, searchVars, pqVars, driverVars, builderVars>>

NextRET == Build

SpecRET == InitRET /\ [][NextRET]_vars

----------------------------------------------------------------------------
(* The claim about the reticle, under SpecRET *)

\* the lines of the stream that are not blank, without the blanks around them
RetLines ==
    SelectSeq([i \in 1..Len(stream) |-> strip(stream[i])], LAMBDA line : line # <<>>)

\* how many cells of the grid hold the character
CountOf(character) ==
    Cardinality({ <<i, j>> \in (1..Len(RetLines)) \X (1..Len(RetLines[1])) :
                     RetLines[i][j] = character })

\* a grid in the format of the module docstring: rows between bars, all of
\* one length, of blanks, x, o, #, $ and @, with one origin at most and a
\* start and an end together or not at all
WellFormedRET ==
    /\ RetLines # <<>>
    /\ \A i \in 1..Len(RetLines) :
          /\ Len(RetLines[i]) = Len(RetLines[1])
          /\ Len(RetLines[i]) >= 3
          /\ RetLines[i][1] = "|"
          /\ RetLines[i][Len(RetLines[i])] = "|"
          /\ \A j \in 2..(Len(RetLines[i]) - 1) :
                RetLines[i][j] \in {" ", "x", "o", "#", "$", "@"}
    /\ CountOf("o") <= 1
    /\ CountOf("#") <= 1
    /\ CountOf("#") = CountOf("$")
    /\ CountOf("@") > 0 => CountOf("#") = 1

\* the cells <<column, row>> of the grid that are not an x
CityCells ==
    { cell \in (0..(Len(RetLines[1]) - 3)) \X (0..(Len(RetLines) - 1)) :
         RetLines[cell[2] + 1][cell[1] + 2] # "x" }

Distance(a, b) == IF a >= b THEN a - b ELSE b - a

Adjacent(a, b) ==
    /\ a # b
    /\ Distance(a[1], b[1]) <= 1
    /\ Distance(a[2], b[2]) <= 1
    /\ diagonal \/ a[1] = b[1] \/ a[2] = b[2]

\* the cities of the Map that stand at the cell
CitiesAt(cell) ==
    { name \in DOMAIN map_.cities :
         map_.cities[name].x = cell[1] /\ map_.cities[name].y = cell[2] }

\* C28: RETStreamMapBuilder.build, on a well-formed grid, ends without an
\* error and gives one city for each cell that is not an x and one road for
\* each unordered pair of adjacent cells that are not x (side by side, one
\* above the other, and corner to corner when diagonal is True), and no
\* other road.
C28_ReticleHasACityPerCellAndARoadPerAdjacency ==
    (pc = "done" /\ WellFormedRET) =>
        /\ error = None
        /\ \A cell \in CityCells : Cardinality(CitiesAt(cell)) = 1
        /\ Cardinality(DOMAIN map_.cities) = Cardinality(CityCells)
        /\ \A a \in CityCells : \A b \in CityCells \ {a} :
              \A name_a \in CitiesAt(a) : \A name_b \in CitiesAt(b) :
                 Cardinality({ i \in 1..Len(map_.roads) :
                                  Ends(map_.roads[i]) = {name_a, name_b} })
                    = IF Adjacent(a, b) THEN 1 ELSE 0
        /\ \A i \in 1..Len(map_.roads) :
              /\ map_.roads[i].city_1 # map_.roads[i].city_2
              /\ Ends(map_.roads[i]) \subseteq DOMAIN map_.cities

\* a diagonal reticle of two rows and two columns with one city missing:
\* three cities, each joined to the two others
C28_Witness ==
    /\ pc = "done" /\ WellFormedRET /\ diagonal
    /\ CountOf("x") = 1
    /\ CountOf("o") = 1
    /\ Cardinality(DOMAIN map_.cities) = 3
    /\ Len(map_.roads) = 3

====
